---- MODULE Spec2Model ----
(***************************************************************************)
(* A model of gfx_phase::Phase (src/src/phase/phase.rs): the draw queue,   *)
(* the memory (cache) of compiled objects, the sort criteria and the       *)
(* enqueue / flush operations, driven by a test technique, a batch context *)
(* and a renderer whose outcomes are chosen by the environment; and of     *)
(* gfx_scene::Scene::draw and PhaseHarness::draw (src/src/scene/lib.rs),   *)
(* which drive a phase over the entities of a scene.                       *)
(***************************************************************************)
EXTENDS Integers, Sequences, FiniteSets, TLC

VARIABLES ctor, memory, sort, queue, compiles, batches, drawn, last,
          arg, scene, harness

vars == <<ctor, memory, sort, queue, compiles, batches, drawn, last,
          arg, scene, harness>>

\* The variables of the scene layer: the draw call of a Scene in progress
\* and the PhaseHarness.
svars == <<scene, harness>>

(***************************************************************************)
(* Bounds of the model.                                                    *)
(***************************************************************************)
MaxQueue == 2
MaxCompiles == 2

(***************************************************************************)
(* Values.  Option<T> is <<>> (None) or <<x>> (Some(x)); a Result is       *)
(* [ok |-> x] or [err |-> e]; a float is <<n>> or <<>> (NaN).               *)
(***************************************************************************)
None == <<>>
Some(x) == <<x>>
Ok(x) == [ok |-> x]
Err(e) == [err |-> e]
IsOk(r) == DOMAIN r = {"ok"}
IsErr(r) == DOMAIN r = {"err"}

NaN == <<>>
Num(n) == <<n>>

\* PartialOrd::partial_cmp on floats: None when either side is NaN.
PartialCmp(a, b) ==
    IF a = NaN \/ b = NaN THEN None
    ELSE IF a[1] < b[1] THEN Some("Less")
    ELSE IF a[1] > b[1] THEN Some("Greater")
    ELSE Some("Equal")

\* Ord::cmp on handle identities (integers).
Cmp(a, b) == IF a < b THEN "Less" ELSE IF a > b THEN "Greater" ELSE "Equal"

\* Option::unwrap_or
UnwrapOr(o, d) == IF o = None THEN d ELSE o[1]

(***************************************************************************)
(* The entities and views offered to the phase.                            *)
(***************************************************************************)
Quad == [id |-> 1, attributes |-> {"a_Pos"}]
Cube == [id |-> 2, attributes |-> {"a_Pos", "a_Normal"}]

Red1 == [material |-> "red", mesh |-> Quad, slice |-> 1]
Red2 == [material |-> "red", mesh |-> Cube, slice |-> 2]
Blue == [material |-> "blue", mesh |-> Cube, slice |-> 2]
Glass == [material |-> "glass", mesh |-> Quad, slice |-> 1]

get_material(entity) == entity.material
get_mesh(entity) == <<entity.mesh, entity.slice>>

\* A view carries a position; its depth is that position.
View(pos) == [pos |-> pos]
to_depth(view_info) == view_info.pos

\* The (entity, view_info) pairs passed to enqueue.
Inputs ==
    { <<Red1, View(Num(1))>>, <<Red1, View(Num(2))>>,
      <<Red2, View(Num(2))>>,
      <<Blue, View(NaN)>>, <<Blue, View(Num(1))>>,
      <<Glass, View(Num(1))>> }

(***************************************************************************)
(* The technique under test.  "glass" is not drawn by it; the essence of   *)
(* the other materials is the material.                                    *)
(***************************************************************************)
Essenses == {"red", "blue"}

TechTest(mesh, material) ==
    IF material \in Essenses THEN Some(material) ELSE None

TechCompile(essense, view_info) ==
    [ program   |-> IF essense = "red" THEN 2 ELSE 1,
      params    |-> [offset |-> Num(0), color |-> essense],
      inst_mesh |-> IF essense = "blue" THEN Some([attributes |-> {"a_Inst"}])
                    ELSE None,
      state     |-> IF essense = "red" THEN 1 ELSE 2 ]

FixParams(material, view_info, params) ==
    [params EXCEPT !.offset = view_info.pos]

(***************************************************************************)
(* The batch context and the renderer: outcomes chosen by the environment. *)
(***************************************************************************)
BatchErrors == {"Batch_AttributeMissing", "Batch_ContextFull"}
MakeCoreOutcomes == {"Ok"} \cup BatchErrors

\* Context::make_core
make_core(program, mesh, state, outcome) ==
    IF outcome = "Ok"
    THEN Ok([program |-> program, mesh |-> mesh, state |-> state])
    ELSE Err(outcome)

DrawErrors == {"Draw_InvalidBatch", "Draw_MissingTarget"}
DrawResults == {"Ok"} \cup DrawErrors
Slices == {1, 2}

cmp_program(a, b) == Cmp(a.program, b.program)
cmp_mesh(a, b) == Cmp(a.mesh.id, b.mesh.id)
cmp_state(a, b) == Cmp(a.state, b.state)

(***************************************************************************)
(* Object (phase.rs 25-50).  `tag` is a history field: the position at     *)
(* which the object was pushed onto the queue.                             *)
(***************************************************************************)
Object(batch, params, slice, depth) ==
    [batch |-> batch, params |-> params, slice |-> slice, depth |-> depth,
     tag |-> 0]

cmp_depth(self, other) ==
    UnwrapOr(PartialCmp(self.depth, other.depth), "Equal")

Sorts == {"FrontToBack", "BackToFront", "Program", "Mesh", "DrawState"}

\* The criteria lists the application assigns to Phase::sort.
SortLists ==
    { <<>>, <<"BackToFront">>, <<"Mesh">>, <<"DrawState">>,
      <<"FrontToBack", "Program">>, <<"Program", "BackToFront">> }

(***************************************************************************)
(* mem::Memory: the unit memory and the hash map memory.                   *)
(***************************************************************************)
EmptyMap == [k \in Essenses |-> None]
UnitMemory == [kind |-> "unit", map |-> EmptyMap]
HashMapNew == [kind |-> "map", map |-> EmptyMap]

Lookup(mem, key) ==
    IF mem.kind = "unit" THEN None ELSE mem.map[key]

Store(mem, key, res) ==
    IF mem.kind = "unit" THEN mem
    ELSE [mem EXCEPT !.map[key] = Some(res)]

(***************************************************************************)
(* draw_queue::Queue: push, stable sort by a comparator, iteration, clear. *)
(***************************************************************************)
QueueNew == <<>>

Range(f) == {f[i] : i \in DOMAIN f}

Push(q, o) == Append(q, [o EXCEPT !.tag = Len(q) + 1])

\* Insert x into the sorted sequence s: x moves left past every element
\* that compares Greater than it and stops at the first that does not.
InsertSorted(s, x, cmp) ==
    LET stop == {j \in 1..Len(s) : cmp[<<s[j], x>>] # "Greater"}
        p == IF stop = {} THEN 0
             ELSE CHOOSE j \in stop : \A k \in stop : k <= j
    IN  SubSeq(s, 1, p) \o <<x>> \o SubSeq(s, p + 1, Len(s))

\* Queue::sort: a stable sort of the objects by the comparator, a function
\* from the pairs of objects of the queue to their ordering.
QueueSort(q, cmp) ==
    LET sorted[i \in 0..Len(q)] ==
            IF i = 0 THEN <<>> ELSE InsertSorted(sorted[i - 1], q[i], cmp)
    IN  sorted[Len(q)]

(***************************************************************************)
(* Phase (phase.rs 62-115): the two constructors.                          *)
(***************************************************************************)
\* Mutant of PhaseNew: the phase is given a hash map for its memory.
PhaseNew_withMap == [memory |-> HashMapNew, sort |-> <<>>, queue |-> QueueNew]

PhaseNew == [memory |-> UnitMemory, sort |-> <<>>, queue |-> QueueNew]

PhaseNewCached == [memory |-> HashMapNew, sort |-> <<>>, queue |-> QueueNew]

NoCounts == [k \in Essenses |-> 0]

\* The record of the last call of a method of the phase: the operation, the essence it resolved (an
\* Option), the path it took and what it returned.
Call(op, key, path, ret) == [op |-> op, key |-> key, path |-> path, ret |-> ret]

(***************************************************************************)
(* The scene layer (lib.rs): the Scene with the draw call it is running,   *)
(* and the PhaseHarness.  A phase that is not the one being driven is kept *)
(* as a record of its fields.                                              *)
(***************************************************************************)
\* The Report of a draw call: the counters of the fragments traversed.
NoReport ==
    [calls_invisible |-> 0, calls_culled |-> 0, calls_rejected |-> 0,
     calls_failed |-> 0, calls_passed |-> 0]

\* Error (lib.rs 18-25).
ErrorBatch(e) == [stage |-> "Batch", error |-> e]
ErrorFlush(e) == [stage |-> "Flush", error |-> e]

\* No draw call of a Scene is running: pc is the position of the call
\* ("idle" outside of one), i the index of the next entity, start the length
\* of the queue when the call began, flushes the number of calls of
\* Phase::flush the call has made, ret what the call returned.
SceneNew(entities) ==
    [entities |-> entities, pc |-> "idle", i |-> 0, mode |-> "strict",
     report |-> NoReport, start |-> 0, flushes |-> 0, ret |-> None]

\* PhaseHarness::new (lib.rs 224-232) and the public fields the application
\* fills afterwards: pc is the position of PhaseHarness::draw, ph the index
\* of the phase it is at, buffer the commands recorded by the renderer.
HarnessNew(phases, clear) ==
    [phases |-> phases, clear |-> clear, pc |-> "idle", ph |-> 0,
     buffer |-> <<>>, ret |-> None]

Init ==
    /\ \/ /\ ctor = "new"
          /\ memory = PhaseNew.memory /\ sort = PhaseNew.sort
          /\ queue = PhaseNew.queue
       \/ /\ ctor = "new_cached"
          /\ memory = PhaseNewCached.memory /\ sort = PhaseNewCached.sort
          /\ queue = PhaseNewCached.queue
    /\ compiles = NoCounts
    /\ batches = NoCounts
    /\ drawn = <<>>
    /\ last = Call("new", None, "-", "Ok")
    /\ arg = None
    /\ scene = SceneNew(<<>>)
    /\ harness = HarnessNew(<<>>, None)

\* A panic unwinds out of the phase: nothing runs after it.
Running == last.ret # "Panic"

(***************************************************************************)
(* Phase::enqueue (phase.rs 134-182).                                      *)
(***************************************************************************)
\* 137-139: the essence of the entity, None where unwrap() panics.
Essense(entity) == TechTest(get_mesh(entity)[1], get_material(entity))

\* Mutant of Recall: a remembered failure is taken for a miss.
Recall_retriesFailure(mem, essense) ==
    IF Lookup(mem, essense) # None /\ IsErr(Lookup(mem, essense)[1]) THEN None
    ELSE Lookup(mem, essense)

\* 142: recalling from memory.
Recall(mem, essense) == Lookup(mem, essense)

\* Mutant of Recalled: the recalled copy keeps the slice it was stored with.
Recalled_keepsSlice(o, entity, view_info) ==
    [o EXCEPT !.params = FixParams(get_material(entity), view_info, @)]

\* 143-147: the object pushed on a hit, made from the recalled copy o.
Recalled(o, entity, view_info) ==
    [o EXCEPT !.slice = get_mesh(entity)[2],
              !.params = FixParams(get_material(entity), view_info, @)]

\* 153-175: compiling with the technique and creating the queue object.
Compiled(entity, essense, view_info, outcome) ==
    LET orig_mesh == get_mesh(entity)[1]
        slice == get_mesh(entity)[2]
        depth == to_depth(view_info)
        tech == TechCompile(essense, view_info)
        params == FixParams(get_material(entity), view_info, tech.params)
        mesh == IF tech.inst_mesh # None
                THEN [id |-> orig_mesh.id,
                      attributes |-> orig_mesh.attributes
                                     \cup tech.inst_mesh[1].attributes]
                ELSE orig_mesh
        batch == make_core(tech.program, mesh, tech.state, outcome)
    IN  IF IsOk(batch) THEN Ok(Object(batch.ok, params, slice, depth))
        ELSE batch

\* Mutant of Remember: the outcome is not stored.
Remember_forgets(mem, essense, object) == mem

\* Mutant of Remember: only a created object is stored, a failure is not.
Remember_onlySuccess(mem, essense, object) ==
    IF IsOk(object) THEN Store(mem, essense, object) ELSE mem

\* 177: remembering the outcome.
Remember(mem, essense, object) == Store(mem, essense, object)

EnqueuePanic ==
    /\ last' = Call("enqueue", None, "panic", "Panic")
    /\ drawn' = <<>>
    /\ UNCHANGED <<ctor, memory, sort, queue, compiles, batches>>

EnqueueHit(entity, view_info, essense, found) ==
    /\ Len(queue) < MaxQueue
    /\ queue' = Push(queue, Recalled(found.ok, entity, view_info))
    /\ last' = Call("enqueue", Some(essense), "hit", "Ok")
    /\ drawn' = <<>>
    /\ UNCHANGED <<ctor, memory, sort, compiles, batches>>

EnqueueHitErr(essense, found) ==
    /\ last' = Call("enqueue", Some(essense), "hit_err", found.err)
    /\ drawn' = <<>>
    /\ UNCHANGED <<ctor, memory, sort, queue, compiles, batches>>

EnqueueMiss(entity, view_info, essense, outcome) ==
    LET object == Compiled(entity, essense, view_info, outcome)
    IN  /\ Len(queue) < MaxQueue
        /\ compiles[essense] < MaxCompiles
        /\ compiles' = [compiles EXCEPT ![essense] = @ + 1]
        /\ batches' = [batches EXCEPT ![essense] = @ + 1]
        /\ memory' = Remember(memory, essense, object)
        /\ queue' = IF IsOk(object) THEN Push(queue, object.ok) ELSE queue
        /\ last' = Call("enqueue", Some(essense), "miss",
                        IF IsOk(object) THEN "Ok" ELSE object.err)
        /\ drawn' = <<>>
        /\ UNCHANGED <<ctor, sort>>

\* outcome is what Context::make_core answers, if asked.
Enqueue(entity, view_info, outcome) ==
    /\ Running
    /\ LET essense == Essense(entity)
       IN  IF essense = None THEN EnqueuePanic
           ELSE LET found == Recall(memory, essense[1])
                IN  IF found = None
                    THEN EnqueueMiss(entity, view_info, essense[1], outcome)
                    ELSE IF IsOk(found[1])
                    THEN EnqueueHit(entity, view_info, essense[1], found[1])
                    ELSE EnqueueHitErr(essense[1], found[1])

(***************************************************************************)
(* Phase::flush (phase.rs 184-212).                                        *)
(***************************************************************************)
\* The comparator of a criterion (190-199).
Compare(criterion, a, b) ==
    CASE criterion = "FrontToBack" -> cmp_depth(a, b)
      [] criterion = "BackToFront" -> cmp_depth(b, a)
      [] criterion = "Program" -> cmp_program(a.batch, b.batch)
      [] criterion = "Mesh" -> cmp_mesh(a.batch, b.batch)
      [] criterion = "DrawState" -> cmp_state(a.batch, b.batch)

\* The closure flush hands to Queue::sort for a criterion.
Closure(q, criterion) ==
    [p \in Range(q) \X Range(q) |-> Compare(criterion, p[1], p[2])]

\* Mutant of SortedQueue: the depth comparators are exchanged.
SortedQueue_swapped(q, criteria) ==
    IF criteria = <<>> THEN q
    ELSE CASE Head(criteria) = "FrontToBack" ->
                QueueSort(q, Closure(q, "BackToFront"))
           [] Head(criteria) = "BackToFront" ->
                QueueSort(q, Closure(q, "FrontToBack"))
           [] OTHER -> QueueSort(q, Closure(q, Head(criteria)))

\* Mutant of SortedQueue: ties of a criterion are broken by the next ones.
RECURSIVE Chained(_, _, _)
Chained(criteria, a, b) ==
    IF criteria = <<>> THEN "Equal"
    ELSE IF Compare(Head(criteria), a, b) # "Equal"
         THEN Compare(Head(criteria), a, b)
         ELSE Chained(Tail(criteria), a, b)

SortedQueue_chained(q, criteria) ==
    QueueSort(q, [p \in Range(q) \X Range(q) |-> Chained(criteria, p[1], p[2])])

\* 189-201: the queue as sorted by the first criterion.
SortedQueue(q, criteria) ==
    IF criteria = <<>> THEN q
    ELSE QueueSort(q, Closure(q, Head(criteria)))

\* 204: what Renderer::draw answers for each object of the sequence q, the
\* renderer answering by the slice it is asked to draw.
DrawAll(q, answer) == [i \in 1..Len(q) |-> answer[q[i].slice]]

\* Mutant of DrawCalls: the loop goes on after an error.
DrawCalls_goesOn(results) == Len(results)

\* 203-208: the number of objects handed to Renderer::draw, the loop
\* returning at the first result that is not Ok.
DrawCalls(results) ==
    LET bad == {i \in DOMAIN results : results[i] # "Ok"}
    IN  IF bad = {} THEN Len(results)
        ELSE CHOOSE i \in bad : \A k \in bad : i <= k

\* Mutant of Flush: the memory is cleared with the queue.
Flush_clearsMemory(answer) ==
    \E sorted \in {SortedQueue(queue, sort)} :
    \E results \in {DrawAll(sorted, answer)} :
    \E n \in {DrawCalls(results)} :
    \E ret \in {IF n = 0 THEN "Ok" ELSE results[n]} :
        /\ Running
        /\ drawn' = [i \in 1..n |-> [object |-> sorted[i], result |-> results[i]]]
        /\ queue' = IF ret = "Ok" THEN <<>> ELSE sorted
        /\ memory' = IF ret = "Ok" THEN [memory EXCEPT !.map = EmptyMap]
                      ELSE memory
        /\ last' = Call("flush", None, "-", ret)
        /\ UNCHANGED <<ctor, sort, compiles, batches>>

\* 184-212.  The sorted queue, the draw results and the number of draw calls
\* are bound once, as values.  drawn is the log of the calls of
\* Renderer::draw made by the last call of a method of the phase.
Flush(answer) ==
    \E sorted \in {SortedQueue(queue, sort)} :
    \E results \in {DrawAll(sorted, answer)} :
    \E n \in {DrawCalls(results)} :
    \E ret \in {IF n = 0 THEN "Ok" ELSE results[n]} :
        /\ Running
        /\ drawn' = [i \in 1..n |-> [object |-> sorted[i], result |-> results[i]]]
        /\ queue' = IF ret = "Ok" THEN <<>> ELSE sorted
        /\ last' = Call("flush", None, "-", ret)
        /\ UNCHANGED <<ctor, memory, sort, compiles, batches>>

(***************************************************************************)
(* The application assigning the public field Phase::sort (phase.rs 72).   *)
(***************************************************************************)
SetSort(criteria) ==
    /\ Running
    /\ sort # criteria
    /\ sort' = criteria
    /\ UNCHANGED <<ctor, memory, queue, compiles, batches, drawn, last>>

\* Context::make_core answers only when enqueue reaches it (a miss).
ReachesContext(entity) ==
    /\ Essense(entity) # None
    /\ Recall(memory, Essense(entity)[1]) = None

\* arg holds the entity and the view_info of the last call of enqueue.
DoEnqueue ==
    \E input \in Inputs :
        \E outcome \in IF ReachesContext(input[1]) THEN MakeCoreOutcomes
                        ELSE {"Ok"} :
            /\ Enqueue(input[1], input[2], outcome)
            /\ arg' = Some(input)
            /\ UNCHANGED svars

DoFlush ==
    \E answer \in [Slices -> DrawResults] :
        /\ Flush(answer)
        /\ arg' = None
        /\ UNCHANGED svars

DoSetSort ==
    \E criteria \in SortLists :
        /\ SetSort(criteria)
        /\ UNCHANGED <<arg, scene, harness>>

Next == DoEnqueue \/ DoFlush \/ DoSetSort

Spec == Init /\ [][Next]_vars

(***************************************************************************)
(* The scene: its entities, the view of each and the traversal modes.      *)
(***************************************************************************)
\* The variables of the phase being driven.
pvars == <<ctor, memory, sort, queue, compiles, batches, drawn, last>>

\* Scene::entities, in insertion order.
SceneEntities == <<Red1, Glass, Blue>>

\* The ViewInfo built for an entity from its node and the camera: Red1 is
\* the farthest.
ViewOf(entity) == View(Num(IF entity = Red1 THEN 2 ELSE 1))

\* What the traversal finds of an entity before the phase is asked: its
\* visibility flag is off, its bound is outside the frustum, or it is seen.
Sights == {"invisible", "culled", "seen"}

\* Strict: the first enqueue error ends the draw call.  Lenient: it is
\* tallied and the traversal goes on.
Modes == {"strict", "lenient"}

\* The criteria the application gave the phase of the scene.
SceneSort == <<"FrontToBack", "Program">>

\* Mutant of Tally: a rejected fragment is not counted.
Tally_dropsRejected(report, counter) ==
    IF counter = "calls_rejected" THEN report
    ELSE [report EXCEPT ![counter] = @ + 1]

\* One more call counted by a counter of the report.
Tally(report, counter) == [report EXCEPT ![counter] = @ + 1]

\* Report::get_calls_total
get_calls_total(report) ==
    report.calls_invisible + report.calls_culled + report.calls_rejected
        + report.calls_failed + report.calls_passed

(***************************************************************************)
(* Phase::test (phase.rs 129-132).                                         *)
(***************************************************************************)
\* Mutant of PhaseTest: every entity is accepted.
PhaseTest_acceptsAll(entity) == TRUE

PhaseTest(entity) ==
    TechTest(get_mesh(entity)[1], get_material(entity)) # None

Test(entity) ==
    /\ Running
    /\ last' = Call("test", Essense(entity), "-",
                    IF PhaseTest(entity) THEN "true" ELSE "false")
    /\ drawn' = <<>>
    /\ UNCHANGED <<ctor, memory, sort, queue, compiles, batches>>

(***************************************************************************)
(* Scene::draw (lib.rs 158-175): enqueue_all over the entities, then the   *)
(* sort and the flush.  The call is a sequence of steps, one for each call *)
(* of a method of the phase; no other operation runs between them.         *)
(***************************************************************************)
\* The entry of the call: the report is reset.
SceneDraw(mode) ==
    [scene EXCEPT !.pc = "visit", !.i = 1, !.mode = mode,
                  !.report = NoReport, !.start = Len(queue),
                  !.flushes = 0, !.ret = None]

\* The traversal passes to the next entity, one counter having counted
\* the present one.
Skip(sc, counter) ==
    [sc EXCEPT !.pc = "visit", !.i = @ + 1,
               !.report = Tally(sc.report, counter)]

\* enqueue_all has passed every entity.
Traversed(sc) == sc.i > Len(sc.entities)

\* The application calls Scene::draw.
DoSceneDraw ==
    \E mode \in Modes :
        /\ Running
        /\ scene.pc = "idle" /\ scene.entities # <<>>
        /\ harness.phases = <<>>
        /\ scene' = SceneDraw(mode)
        /\ UNCHANGED <<pvars, arg, harness>>

\* enqueue_all, one entity up to its test: an invisible or culled entity
\* is skipped before the phase is asked, a rejected one after Phase::test.
SceneVisit ==
    \E sight \in Sights :
        /\ scene.pc = "visit" /\ ~Traversed(scene)
        /\ LET entity == scene.entities[scene.i]
           IN  IF sight = "invisible"
               THEN /\ Running
                    /\ scene' = Skip(scene, "calls_invisible")
                    /\ UNCHANGED <<pvars, arg>>
               ELSE IF sight = "culled"
               THEN /\ Running
                    /\ scene' = Skip(scene, "calls_culled")
                    /\ UNCHANGED <<pvars, arg>>
               ELSE /\ Test(entity)
                    /\ arg' = Some(<<entity, ViewOf(entity)>>)
                    /\ scene' = IF PhaseTest(entity)
                                THEN [scene EXCEPT !.pc = "enqueue"]
                                ELSE Skip(scene, "calls_rejected")
        /\ UNCHANGED harness

\* An enqueue error (lib.rs 166-170): the strict draw call returns it as
\* Error::Batch, the lenient one tallies it.
Failed(sc, e) ==
    IF sc.mode = "strict"
    THEN [sc EXCEPT !.pc = "idle", !.ret = Some(Err(ErrorBatch(e))),
                    !.report = Tally(sc.report, "calls_failed")]
    ELSE Skip(sc, "calls_failed")

\* enqueue_all, the enqueue of the entity that passed the test.
SceneEnqueue ==
    /\ scene.pc = "enqueue"
    /\ LET entity == scene.entities[scene.i]
       IN  \E outcome \in IF ReachesContext(entity) THEN MakeCoreOutcomes
                           ELSE {"Ok"} :
               /\ Enqueue(entity, ViewOf(entity), outcome)
               /\ arg' = Some(<<entity, ViewOf(entity)>>)
               /\ scene' = IF last'.ret = "Ok"
                              THEN Skip(scene, "calls_passed")
                           ELSE IF last'.ret = "Panic" THEN scene
                           ELSE Failed(scene, last'.ret)
    /\ UNCHANGED harness

\* Mutant of Flushed: a flush error is reported as Error::Batch.
Flushed_asBatch(ret) ==
    IF ret = "Ok" THEN Ok("()") ELSE Err(ErrorBatch(ret))

\* 174: the result of flush, its error mapped to Error::Flush.
Flushed(ret) ==
    IF ret = "Ok" THEN Ok("()") ELSE Err(ErrorFlush(ret))

\* The commands a flush of the phase ph records in the renderer.
Draws(ph, log) ==
    [i \in DOMAIN log |-> [cmd |-> "draw", phase |-> ph,
                           slice |-> log[i].object.slice]]

\* Mutant of SceneFlush: the flush does not wait for enqueue_all to return.
SceneFlush_midway ==
    /\ scene.pc = "visit"
    /\ \E answer \in [Slices -> DrawResults] :
           /\ Flush(answer)
           /\ arg' = None
           /\ scene' = [scene EXCEPT !.pc = "idle", !.flushes = @ + 1,
                                     !.ret = Some(Flushed(last'.ret))]
           /\ UNCHANGED harness

\* 171-174: the sort and the flush, when enqueue_all has returned Ok.
SceneFlush ==
    /\ scene.pc = "visit" /\ Traversed(scene)
    /\ \E answer \in [Slices -> DrawResults] :
           /\ Flush(answer)
           /\ arg' = None
           /\ scene' = [scene EXCEPT !.pc = "idle", !.flushes = @ + 1,
                                     !.ret = Some(Flushed(last'.ret))]
           /\ harness' = IF harness.pc = "scene"
                         THEN [harness EXCEPT
                                 !.buffer = @ \o Draws(harness.ph, drawn')]
                         ELSE harness

\* A phase with the sort criteria the application gave it.
InitPhase(c, p, criteria) ==
    /\ ctor = c
    /\ memory = p.memory /\ sort = criteria /\ queue = p.queue
    /\ compiles = NoCounts /\ batches = NoCounts
    /\ drawn = <<>>
    /\ last = Call("new", None, "-", "Ok")
    /\ arg = None

InitScene ==
    /\ \/ InitPhase("new", PhaseNew, SceneSort)
       \/ InitPhase("new_cached", PhaseNewCached, SceneSort)
    /\ scene = SceneNew(SceneEntities)
    /\ harness = HarnessNew(<<>>, None)

NextScene == DoSceneDraw \/ SceneVisit \/ SceneEnqueue \/ SceneFlush

SpecScene == InitScene /\ [][NextScene]_vars

(***************************************************************************)
(* PhaseHarness::draw (lib.rs 234-250): the renderer is reset and cleared, *)
(* then Scene::draw runs for each phase of the list in turn.  The phase    *)
(* being drawn is held by the variables of the phase; the list keeps the   *)
(* fields of each phase between its draw calls.                            *)
(***************************************************************************)
\* A phase of the list: the fields of a Phase and its counters.
PhaseOf(c, p, criteria) ==
    [ctor |-> c, memory |-> p.memory, sort |-> criteria, queue |-> p.queue,
     compiles |-> NoCounts, batches |-> NoCounts]

\* The phase being driven, as it is kept in the list.
PhaseState ==
    [ctor |-> ctor, memory |-> memory, sort |-> sort, queue |-> queue,
     compiles |-> compiles, batches |-> batches]

\* PhaseHarness::phases as filled by the application.
HarnessPhases ==
    << PhaseOf("new_cached", PhaseNewCached, SceneSort),
       PhaseOf("new", PhaseNew, <<>>) >>

\* The entities of the scene the harness wraps.
HarnessEntities == <<Red1, Glass>>

\* PhaseHarness::clear as set by the application.
ClearData == {None, Some("black")}

ClearCmd == [cmd |-> "clear", phase |-> 0, slice |-> 0]

\* 238-242: reset, and the clear if there is clear data.
HarnessDraw ==
    /\ Running
    /\ harness.pc = "idle" /\ harness.phases # <<>>
    /\ scene.pc = "idle"
    /\ harness' = [harness EXCEPT
                     !.pc = "phases", !.ph = 1, !.ret = None,
                     !.buffer = IF harness.clear = None THEN <<>>
                                ELSE <<ClearCmd>>]
    /\ UNCHANGED <<pvars, arg, scene>>

\* 243-244: Scene::draw is called on the next phase of the list.
HarnessPhase ==
    /\ Running
    /\ harness.pc = "phases" /\ harness.ph <= Len(harness.phases)
    /\ LET p == harness.phases[harness.ph]
       IN  /\ ctor' = p.ctor /\ memory' = p.memory /\ sort' = p.sort
           /\ queue' = p.queue
           /\ compiles' = p.compiles /\ batches' = p.batches
           /\ scene' = [SceneDraw("strict") EXCEPT !.start = Len(p.queue)]
    /\ harness' = [harness EXCEPT !.pc = "scene"]
    /\ UNCHANGED <<drawn, last, arg>>

\* Mutant of Continue: the loop goes on whatever Scene::draw returned.
Continue_always(ret) == TRUE

\* 245-246: the loop goes on after Ok and returns an error.
Continue(ret) == IsOk(ret)

\* 244-247: Scene::draw has returned.
HarnessReturn ==
    /\ Running
    /\ harness.pc = "scene"
    /\ scene.pc = "idle" /\ scene.ret # None
    /\ harness' = IF Continue(scene.ret[1])
                  THEN [harness EXCEPT !.phases[harness.ph] = PhaseState,
                                       !.pc = "phases", !.ph = @ + 1]
                  ELSE [harness EXCEPT !.phases[harness.ph] = PhaseState,
                                       !.pc = "idle",
                                       !.ret = Some(scene.ret[1])]
    /\ UNCHANGED <<pvars, arg, scene>>

\* 249: every phase is drawn, the command buffer is returned.
HarnessDone ==
    /\ Running
    /\ harness.pc = "phases" /\ harness.ph > Len(harness.phases)
    /\ harness' = [harness EXCEPT !.pc = "idle",
                                  !.ret = Some(Ok(harness.buffer))]
    /\ UNCHANGED <<pvars, arg, scene>>

InitHarness ==
    /\ InitPhase("new_cached", PhaseNewCached, SceneSort)
    /\ scene = SceneNew(HarnessEntities)
    /\ \E clear \in ClearData : harness = HarnessNew(HarnessPhases, clear)

NextHarness ==
    \/ HarnessDraw \/ HarnessPhase
    \/ SceneVisit \/ SceneEnqueue \/ SceneFlush
    \/ HarnessReturn \/ HarnessDone

SpecHarness == InitHarness /\ [][NextHarness]_vars

(***************************************************************************)
(* Vocabulary of the properties.                                           *)
(***************************************************************************)
\* A step that is a call of enqueue, respectively of flush (an assignment
\* to Phase::sort changes sort and leaves last alone).
EnqueueStep == sort' = sort /\ last'.op = "enqueue"
FlushStep == sort' = sort /\ last'.op = "flush"

Objects(log) == [i \in DOMAIN log |-> log[i].object]
Entry(mem, k) == mem.map[k]
HasOk(mem, k) == Entry(mem, k) # None /\ IsOk(Entry(mem, k)[1])
HasErr(mem, k) == Entry(mem, k) # None /\ IsErr(Entry(mem, k)[1])

\* The objects of the sequence s are in the order of their enqueue calls.
InEnqueueOrder(s) == \A i, j \in DOMAIN s : i < j => s[i].tag < s[j].tag

\* s holds objects of the queue q, none twice.
NoneTwice(s, q) ==
    /\ Range(s) \subseteq Range(q)
    /\ \A i, j \in DOMAIN s : s[i] = s[j] => i = j

\* s holds every object of the queue q exactly once.
Permutation(s, q) == NoneTwice(s, q) /\ Len(s) = Len(q)

(***************************************************************************)
(* C1.  On a phase made by new_cached, compile and batch creation run at   *)
(* most once for each essence, and an enqueue whose essence has a          *)
(* successful entry takes the hit path: it pushes one object and compiles  *)
(* nothing.                                                                *)
(***************************************************************************)
C1_CompileOncePerEssense ==
    [][ctor = "new_cached" =>
        /\ \A k \in Essenses : compiles'[k] <= 1 /\ batches'[k] <= 1
        /\ (EnqueueStep /\ last'.key # None /\ HasOk(memory, last'.key[1]))
           => /\ last'.path = "hit" /\ last'.ret = "Ok"
              /\ compiles' = compiles /\ batches' = batches
              /\ Len(queue') = Len(queue) + 1]_vars

\* A hit after both essences were compiled once.
C1_Witness ==
    /\ ctor = "new_cached"
    /\ last.op = "enqueue" /\ last.path = "hit"
    /\ \A k \in Essenses : compiles[k] = 1
    /\ Len(queue) = 1

(***************************************************************************)
(* C2.  A remembered failure is not retried: an enqueue whose essence has  *)
(* a failure in the memory returns that error, pushes nothing, compiles    *)
(* nothing and creates no batch; the entry stays, and the essence was      *)
(* compiled exactly once.                                                  *)
(***************************************************************************)
C2_FailureNotRetried ==
    [][\A k \in Essenses : HasErr(memory, k) =>
        /\ compiles[k] = 1 /\ batches[k] = 1
        /\ Entry(memory', k) = Entry(memory, k)
        /\ compiles'[k] = 1 /\ batches'[k] = 1
        /\ (EnqueueStep /\ last'.key = Some(k))
           => /\ last'.ret = Entry(memory, k)[1].err
              /\ queue' = queue]_vars

\* The failing essence was enqueued again, after another essence was queued.
C2_Witness ==
    /\ last.op = "enqueue" /\ last.path = "hit_err"
    /\ HasErr(memory, last.key[1])
    /\ last.ret = Entry(memory, last.key[1])[1].err
    /\ compiles[last.key[1]] = 1
    /\ queue # <<>>

(***************************************************************************)
(* C3.  Once flush has returned the queue is empty, and a flush that       *)
(* follows a flush with no enqueue in between draws nothing and returns    *)
(* success.                                                                *)
(***************************************************************************)
C3_QueueEmptyAfterFlush ==
    [][FlushStep =>
        /\ queue' = <<>>
        /\ last.op = "flush" => (drawn' = <<>> /\ last'.ret = "Ok")]_vars

(***************************************************************************)
(* C4.  A flush with no sort criterion draws the queued objects in the     *)
(* order of their enqueue calls, each exactly once.                        *)
(***************************************************************************)
C4_NoCriterionKeepsEnqueueOrder ==
    [][(FlushStep /\ sort = <<>>) =>
        /\ InEnqueueOrder(Objects(drawn'))
        /\ NoneTwice(Objects(drawn'), queue)
        /\ last'.ret = "Ok" => Permutation(Objects(drawn'), queue)]_vars

(***************************************************************************)
(* C5.  A flush whose first criterion is FrontToBack draws a permutation   *)
(* of the queue (a prefix of it when a draw fails) that does not decrease  *)
(* in depth, BackToFront one that does not increase; a NaN depth compares  *)
(* as equal to its neighbours and flush does not panic on it.              *)
(***************************************************************************)
Comparable(s) == \A i \in DOMAIN s : s[i].depth # NaN

\* No object is followed by a neighbour of a smaller depth.
Ascending(s) ==
    \A i \in 1..(Len(s) - 1) :
        \/ s[i].depth = NaN \/ s[i + 1].depth = NaN
        \/ s[i].depth[1] <= s[i + 1].depth[1]

Descending(s) ==
    \A i \in 1..(Len(s) - 1) :
        \/ s[i].depth = NaN \/ s[i + 1].depth = NaN
        \/ s[i].depth[1] >= s[i + 1].depth[1]

\* With comparable depths, the objects of q left out of s are not nearer
\* (not farther) than the objects of s.
RestBehind(s, q) ==
    Comparable(q) =>
        \A i \in DOMAIN s : \A o \in Range(q) \ Range(s) :
            s[i].depth[1] <= o.depth[1]

RestBefore(s, q) ==
    Comparable(q) =>
        \A i \in DOMAIN s : \A o \in Range(q) \ Range(s) :
            s[i].depth[1] >= o.depth[1]

C5_DepthCriteriaOrder ==
    [][(FlushStep /\ sort # <<>>
                  /\ Head(sort) \in {"FrontToBack", "BackToFront"}) =>
        /\ last'.ret \in DrawResults
        /\ NoneTwice(Objects(drawn'), queue)
        /\ last'.ret = "Ok" => Permutation(Objects(drawn'), queue)
        /\ Head(sort) = "FrontToBack" =>
              /\ Ascending(Objects(drawn'))
              /\ RestBehind(Objects(drawn'), queue)
        /\ Head(sort) = "BackToFront" =>
              /\ Descending(Objects(drawn'))
              /\ RestBefore(Objects(drawn'), queue)]_vars

\* A front-to-back flush drew the object enqueued second before the first.
C5_Witness ==
    /\ last.op = "flush" /\ last.ret = "Ok"
    /\ sort # <<>> /\ Head(sort) = "FrontToBack"
    /\ Len(drawn) = 2
    /\ drawn[1].object.depth = Num(1) /\ drawn[2].object.depth = Num(2)
    /\ drawn[1].object.tag > drawn[2].object.tag

(***************************************************************************)
(* C6.  Flush draws the ordered queue in order and stops at the first      *)
(* draw error: every draw before the last one succeeded, nothing behind a  *)
(* failed draw is drawn, and flush returns that error; with no failure the *)
(* whole queue is drawn and flush returns success.                         *)
(***************************************************************************)
C6_StopsAtFirstDrawError ==
    [][FlushStep =>
        LET ordered == SortedQueue(queue, sort)
            n == Len(drawn')
        IN  /\ n <= Len(ordered)
            /\ Objects(drawn') = SubSeq(ordered, 1, n)
            /\ \A i \in 1..(n - 1) : drawn'[i].result = "Ok"
            /\ IF n > 0 /\ drawn'[n].result # "Ok"
               THEN last'.ret = drawn'[n].result
               ELSE n = Len(ordered) /\ last'.ret = "Ok"]_vars

\* The first draw of a queue of two failed: the second object was not drawn.
C6_Witness ==
    /\ last.op = "flush" /\ last.ret \in DrawErrors
    /\ Len(drawn) = 1 /\ drawn[1].result = last.ret
    /\ Len(queue) = 2

(***************************************************************************)
(* C7.  Flush leaves the memory as it was, whether it succeeds or stops at *)
(* a draw error.                                                           *)
(***************************************************************************)
C7_FlushKeepsMemory == [][FlushStep => memory' = memory]_vars

\* A flush returned with a success and a failure in the memory.
C7_Witness ==
    /\ last.op = "flush" /\ drawn # <<>>
    /\ \E k \in Essenses : HasOk(memory, k)
    /\ \E k \in Essenses : HasErr(memory, k)

(***************************************************************************)
(* C8.  An enqueue of an entity the technique does not draw returns an     *)
(* error to the caller and leaves the queue and the memory as they were.   *)
(***************************************************************************)
C8_RejectedEntityIsAnError ==
    [][(EnqueueStep /\ last'.key = None) =>
        /\ last'.ret \notin {"Ok", "Panic"}
        /\ queue' = queue
        /\ memory' = memory]_vars

(***************************************************************************)
(* C9.  Only the first sort criterion counts: a flush draws the objects in *)
(* the order the list of that one criterion gives.                         *)
(***************************************************************************)
C9_OnlyFirstCriterion ==
    [][(FlushStep /\ sort # <<>>) =>
        Objects(drawn') =
            SubSeq(SortedQueue(queue, <<Head(sort)>>), 1, Len(drawn'))]_vars

\* Two objects of one program were drawn nearest first under the criteria
\* Program, BackToFront.
C9_Witness ==
    /\ last.op = "flush" /\ last.ret = "Ok"
    /\ sort = <<"Program", "BackToFront">>
    /\ Len(drawn) = 2
    /\ drawn[1].object.batch.program = drawn[2].object.batch.program
    /\ drawn[1].object.depth = Num(1) /\ drawn[2].object.depth = Num(2)

(***************************************************************************)
(* C10.  A phase made by new recalls nothing: every enqueue of an entity   *)
(* the technique draws compiles and creates a batch, whatever was enqueued *)
(* before.                                                                 *)
(***************************************************************************)
C10_NullMemoryAlwaysCompiles ==
    [][ctor = "new" =>
        /\ \A k \in Essenses : Recall(memory', k) = None
        /\ (EnqueueStep /\ last'.key # None) =>
              /\ last'.path = "miss"
              /\ compiles'[last'.key[1]] = compiles[last'.key[1]] + 1
              /\ batches'[last'.key[1]] = batches[last'.key[1]] + 1]_vars

\* The same essence was compiled a second time.
C10_Witness ==
    /\ ctor = "new"
    /\ last.op = "enqueue" /\ last.path = "miss"
    /\ compiles[last.key[1]] = 2 /\ batches[last.key[1]] = 2

(***************************************************************************)
(* Vocabulary of the claims on single calls of enqueue.                    *)
(***************************************************************************)
\* The entity and the view_info of the call of enqueue a step makes.
ArgEntity == arg'[1][1]
ArgView == arg'[1][2]

\* The object a successful call of enqueue has pushed.
Pushed == queue'[Len(queue')]

\* A call of enqueue that pushed exactly one object.
PushedOne == Len(queue') = Len(queue) + 1 /\ SubSeq(queue', 1, Len(queue)) = queue

\* The depth of the view an object was last patched with: the test
\* technique's fix_params writes it to params.offset on both paths.
ViewDepth(o) == o.params.offset

(***************************************************************************)
(* C16.  An object pushed by enqueue carries the depth of the view_info of *)
(* that call, on the hit path as on the miss path; hence a flush by        *)
(* FrontToBack draws objects of distinct comparable view depths in         *)
(* strictly increasing order of those depths.                              *)
(***************************************************************************)
C16_ObjectCarriesViewDepth ==
    [][/\ (EnqueueStep /\ last'.ret = "Ok")
            => Pushed.depth = to_depth(ArgView)
       /\ (FlushStep /\ sort # <<>> /\ Head(sort) = "FrontToBack")
            => \A i, j \in DOMAIN drawn' :
                 (/\ i < j
                  /\ ViewDepth(drawn'[i].object) # NaN
                  /\ ViewDepth(drawn'[j].object) # NaN
                  /\ ViewDepth(drawn'[i].object) # ViewDepth(drawn'[j].object))
                 => ViewDepth(drawn'[i].object)[1]
                        < ViewDepth(drawn'[j].object)[1]]_vars

(***************************************************************************)
(* C17.  A call of enqueue that misses returns the outcome of the batch    *)
(* creation and stores that outcome under the essence: on success the      *)
(* queue grows by exactly one object, the one stored; on failure the queue *)
(* is unchanged and the entry stored is the error returned.  Entries of    *)
(* other essences are untouched.  (The hash map memory keeps what is       *)
(* stored; the unit memory of Phase::new keeps nothing.)                   *)
(***************************************************************************)
C17_MissStoresAndReturnsOutcome ==
    [][(EnqueueStep /\ last'.path = "miss") =>
        LET k == last'.key[1]
        IN  /\ \A e \in Essenses \ {k} : Entry(memory', e) = Entry(memory, e)
            /\ memory.kind = "map" => Entry(memory', k) # None
            /\ last'.ret = "Ok" =>
                  /\ PushedOne
                  /\ memory.kind = "map" =>
                        /\ IsOk(Entry(memory', k)[1])
                        /\ [Pushed EXCEPT !.tag = 0] = Entry(memory', k)[1].ok
            /\ last'.ret # "Ok" =>
                  /\ last'.ret \in BatchErrors
                  /\ queue' = queue
                  /\ memory.kind = "map" =>
                        /\ IsErr(Entry(memory', k)[1])
                        /\ Entry(memory', k)[1].err = last'.ret]_vars

\* A miss that failed on a phase with a hash map memory, after a miss of
\* the other essence that succeeded and whose object is queued.
C17_Witness ==
    /\ last.op = "enqueue" /\ last.path = "miss"
    /\ last.ret \in BatchErrors
    /\ memory.kind = "map"
    /\ HasErr(memory, last.key[1])
    /\ Entry(memory, last.key[1])[1].err = last.ret
    /\ \E e \in Essenses \ {last.key[1]} : HasOk(memory, e)
    /\ queue # <<>>

(***************************************************************************)
(* C18.  A call of enqueue that hits a successful entry pushes exactly one *)
(* object: the batch of the entry, the slice of the entity of the call and *)
(* the parameters of the entry patched by fix_params with the view_info of *)
(* the call.  The hit leaves the memory as it was, and an entry, once      *)
(* stored, is never changed by any step.                                   *)
(***************************************************************************)
C18_HitPushesPatchedCopy ==
    [][/\ (EnqueueStep /\ last'.path = "hit") =>
            LET cached == Entry(memory, last'.key[1])[1].ok
            IN  /\ PushedOne
                /\ Pushed.batch = cached.batch
                /\ Pushed.slice = get_mesh(ArgEntity)[2]
                /\ Pushed.params =
                      FixParams(get_material(ArgEntity), ArgView, cached.params)
                /\ memory' = memory
       /\ \A k \in Essenses :
            Entry(memory, k) # None => Entry(memory', k) = Entry(memory, k)]_vars

\* A hit whose entity and view differ from those the entry was compiled
\* for: the object pushed has another slice and other parameters than the
\* entry, which is still as it was stored.
C18_Witness ==
    /\ last.op = "enqueue" /\ last.path = "hit"
    /\ arg # None /\ queue # <<>>
    /\ LET cached == Entry(memory, last.key[1])[1].ok
           o == queue[Len(queue)]
       IN  /\ o.slice = get_mesh(arg[1][1])[2]
           /\ o.slice # cached.slice
           /\ o.params # cached.params
           /\ o.batch = cached.batch

(***************************************************************************)
(* C19.  A flush whose first criterion is Program, Mesh or DrawState draws *)
(* the queued objects, each once (all of them when no draw fails), ordered *)
(* by the identity of that handle, so that objects sharing the handle are  *)
(* contiguous, and objects that compare equal are drawn in the order of    *)
(* their enqueue calls.                                                    *)
(***************************************************************************)
HandleOf(criterion, o) ==
    CASE criterion = "Program" -> o.batch.program
      [] criterion = "Mesh" -> o.batch.mesh.id
      [] criterion = "DrawState" -> o.batch.state

C19_HandleCriteriaGroupStably ==
    [][(FlushStep /\ sort # <<>>
                  /\ Head(sort) \in {"Program", "Mesh", "DrawState"}) =>
        LET s == Objects(drawn')
        IN  /\ NoneTwice(s, queue)
            /\ last'.ret = "Ok" => Permutation(s, queue)
            /\ \A i, j \in DOMAIN s : i < j =>
                  /\ HandleOf(Head(sort), s[i]) <= HandleOf(Head(sort), s[j])
                  /\ HandleOf(Head(sort), s[i]) = HandleOf(Head(sort), s[j])
                        => s[i].tag < s[j].tag]_vars

(***************************************************************************)
(* Vocabulary of the claims on draw calls of a Scene.                      *)
(***************************************************************************)
\* The steps of a draw call that call Phase::test, Phase::enqueue and
\* Phase::flush, and the step by which the call returns.
SceneTestCall ==
    /\ scene.pc = "visit" /\ last'.op = "test"
    /\ \/ scene'.pc = "enqueue"
       \/ scene'.report.calls_rejected = scene.report.calls_rejected + 1
SceneEnqueueCall == scene.pc = "enqueue" /\ last'.op = "enqueue"
SceneFlushCall == scene.pc = "visit" /\ scene'.pc = "idle" /\ last'.op = "flush"
SceneReturns == scene.pc # "idle" /\ scene'.pc = "idle"

\* What a draw call returned.
ReturnedOk(sc) == sc.ret # None /\ IsOk(sc.ret[1])
ReturnedErr(sc, stage) ==
    sc.ret # None /\ IsErr(sc.ret[1]) /\ sc.ret[1].err.stage = stage

\* The flush of a draw call comes after the traversal of every entity, is
\* the first flush of the call, and draws objects of the queue in the order
\* of the sort (by depth, near to far), each once; an enqueue of the call
\* comes before any flush of the call.
FlushAfterEnqueues ==
    /\ SceneFlushCall =>
          /\ scene.i > Len(scene.entities)
          /\ scene.flushes = 0 /\ scene'.flushes = 1
          /\ NoneTwice(Objects(drawn'), queue)
          /\ Ascending(Objects(drawn'))
          /\ RestBehind(Objects(drawn'), queue)
    /\ SceneEnqueueCall => scene.flushes = 0 /\ scene'.flushes = 0
    /\ scene'.flushes <= 1

(***************************************************************************)
(* C11 as stated.  Every draw call of a Scene calls Phase::flush exactly   *)
(* once, after the enqueue of all its entities, the sort coming between    *)
(* the last enqueue and the draws; no enqueue of the call follows.         *)
(***************************************************************************)
C11_FlushExactlyOnceInEveryDraw ==
    [][/\ FlushAfterEnqueues
       /\ SceneReturns => scene'.flushes = 1]_vars

(***************************************************************************)
(* C11, amended.  A draw call of a Scene whose enqueue stage succeeds      *)
(* calls Phase::flush exactly once, after the enqueue of all its entities, *)
(* the sort coming between the last enqueue and the draws, and no enqueue  *)
(* of the call follows; a call that returns Error::Batch has not called    *)
(* flush at all.                                                           *)
(***************************************************************************)
C11_FlushOnceUnlessBatchError ==
    [][/\ FlushAfterEnqueues
       /\ SceneReturns =>
             /\ ReturnedErr(scene', "Batch") => scene'.flushes = 0
             /\ ~ReturnedErr(scene', "Batch") => scene'.flushes = 1]_vars

\* A draw call has returned Ok after one flush that drew both objects,
\* the one enqueued second first.
C11_Witness ==
    /\ scene.pc = "idle" /\ ReturnedOk(scene)
    /\ scene.flushes = 1
    /\ Len(drawn) = 2
    /\ drawn[1].object.tag > drawn[2].object.tag
    /\ drawn[1].object.depth[1] < drawn[2].object.depth[1]

(***************************************************************************)
(* C12.  A strict draw call of a Scene reports the stage of a failure: an  *)
(* enqueue error is returned as Error::Batch, with no sort and no draw     *)
(* made; a flush error is returned as Error::Flush; Ok is returned only    *)
(* when the flush and every enqueue of the call succeeded.                 *)
(***************************************************************************)
C12_ErrorNamesTheStage ==
    [][(SceneReturns /\ scene.mode = "strict") =>
        /\ scene'.ret # None
        /\ (last'.op = "enqueue") =>
              /\ last'.ret \in BatchErrors
              /\ scene'.ret[1] = Err([stage |-> "Batch", error |-> last'.ret])
              /\ scene'.flushes = 0
              /\ queue' = queue /\ drawn' = <<>>
        /\ (last'.op = "flush" /\ last'.ret # "Ok") =>
              /\ last'.ret \in DrawErrors
              /\ scene'.ret[1] = Err([stage |-> "Flush", error |-> last'.ret])
        /\ (last'.op = "flush" /\ last'.ret = "Ok") => ReturnedOk(scene')
        /\ ReturnedOk(scene') =>
              /\ last'.op = "flush" /\ last'.ret = "Ok"
              /\ scene'.report.calls_failed = 0
        /\ last'.op \in {"enqueue", "flush"}]_vars

\* A strict draw call has returned Error::Batch for its last entity, the
\* object of an earlier entity being queued and nothing drawn.
C12_Witness ==
    /\ scene.pc = "idle" /\ scene.mode = "strict"
    /\ ReturnedErr(scene, "Batch")
    /\ scene.ret[1].err.error \in BatchErrors
    /\ scene.report.calls_passed = 1
    /\ queue # <<>> /\ drawn = <<>>

(***************************************************************************)
(* C14.  Phase::test returns true exactly when the technique's test yields *)
(* an essence for the entity, and changes neither the queue nor the        *)
(* memory; in a draw call of a Scene an entity is enqueued only after test *)
(* has accepted it, so a rejected entity is never enqueued and no entry is *)
(* stored for it.                                                          *)
(***************************************************************************)
C14_TestIsPure ==
    [][/\ SceneTestCall =>
            /\ last'.ret \in {"true", "false"}
            /\ last'.ret = "true" <=>
                  TechTest(get_mesh(ArgEntity)[1], get_material(ArgEntity)) # None
            /\ queue' = queue /\ memory' = memory
            /\ compiles' = compiles /\ batches' = batches
            /\ last'.ret = "false" => scene'.pc = "visit" /\ scene'.i = scene.i + 1
       /\ SceneEnqueueCall =>
            /\ last.op = "test" /\ last.ret = "true"
            /\ arg' = arg
            /\ last'.path # "panic"]_vars

\* A draw call has returned in which test rejected one entity and accepted
\* the others: the rejected one has no object in what was drawn.
C14_Witness ==
    /\ scene.pc = "idle" /\ ReturnedOk(scene)
    /\ scene.report.calls_rejected = 1
    /\ scene.report.calls_passed = 2
    /\ Len(drawn) = 2
    /\ \A i \in DOMAIN drawn : drawn[i].object.params.color \in Essenses

(***************************************************************************)
(* C15.  In a lenient draw call of a Scene the report is reset when the    *)
(* call begins, and every entity traversed is counted by exactly one of    *)
(* the five counters: their sum is the number of entities traversed so     *)
(* far, the number of entities of the scene when the traversal is over,    *)
(* and calls_passed is the number of objects the call has pushed.          *)
(***************************************************************************)
C15_ReportCountsEveryFragment ==
    [][/\ (scene.pc = "idle" /\ scene'.pc # "idle") => scene'.report = NoReport
       /\ (scene'.pc # "idle" /\ scene'.mode = "lenient") =>
            /\ get_calls_total(scene'.report) = scene'.i - 1
            /\ scene'.report.calls_passed = Len(queue') - scene'.start
       /\ (scene.pc = "visit" /\ scene'.pc # "idle" /\ scene'.i = scene.i + 1)
            => \E c \in DOMAIN NoReport :
                 /\ scene'.report[c] = scene.report[c] + 1
                 /\ \A d \in DOMAIN NoReport \ {c} :
                      scene'.report[d] = scene.report[d]
       /\ (SceneReturns /\ scene'.mode = "lenient") =>
            /\ get_calls_total(scene'.report) = Len(scene'.entities)
            /\ scene'.report.calls_passed = Len(queue) - scene'.start]_vars

\* A lenient draw call has returned with one entity invisible, one
\* rejected and one failed.
C15_Witness ==
    /\ scene.pc = "idle" /\ scene.ret # None /\ scene.mode = "lenient"
    /\ scene.report.calls_invisible = 1
    /\ scene.report.calls_rejected = 1
    /\ scene.report.calls_failed = 1
    /\ get_calls_total(scene.report) = Len(scene.entities)

(***************************************************************************)
(* C20.  Every object a draw call of a Scene hands to the renderer was     *)
(* enqueued during that same call, whatever the calls before it returned,  *)
(* and no object is drawn more than once.                                  *)
(***************************************************************************)
C20_NoObjectLeaksIntoNextDraw ==
    [][SceneFlushCall =>
        /\ \A i \in DOMAIN drawn' : drawn'[i].object.tag > scene.start
        /\ \A i, j \in DOMAIN drawn' :
              drawn'[i].object = drawn'[j].object => i = j]_vars

(***************************************************************************)
(* C13.  PhaseHarness::draw resets the renderer and issues the clear, if   *)
(* there is clear data, before any draw of a phase; it runs Scene::draw    *)
(* for the phases in list order, one draw call having returned before the  *)
(* next begins; it returns the error of the first phase whose draw call    *)
(* fails, no later phase being enqueued or drawn, and returns the command  *)
(* buffer only when the draw call of every phase returned Ok.              *)
(***************************************************************************)
\* The commands of the buffer b: at most a clear, in front, then draws in
\* the order of the phases, none of a phase beyond ph.
InPhaseOrder(b, ph) ==
    /\ \A i \in DOMAIN b : b[i].cmd = "clear" => i = 1
    /\ \A i \in DOMAIN b : b[i].cmd = "draw" => b[i].phase \in 1..ph
    /\ \A i, j \in DOMAIN b :
          (i < j /\ b[i].cmd = "draw" /\ b[j].cmd = "draw")
              => b[i].phase <= b[j].phase

C13_PhasesInOrderUntilFirstError ==
    [][/\ (harness.pc = "idle" /\ harness'.pc # "idle") =>
            /\ harness'.ph = 1 /\ scene'.pc = "idle"
            /\ harness'.buffer = IF harness.clear = None THEN <<>>
                                  ELSE <<[cmd |-> "clear", phase |-> 0,
                                          slice |-> 0]>>
       /\ harness.pc # "idle" =>
            /\ Len(harness'.buffer) >= Len(harness.buffer)
            /\ SubSeq(harness'.buffer, 1, Len(harness.buffer)) = harness.buffer
            /\ Len(harness'.buffer) = Len(harness.buffer) + Len(drawn')
                  \/ ~SceneFlushCall
            /\ harness'.buffer # harness.buffer => SceneFlushCall
       /\ InPhaseOrder(harness'.buffer, harness'.ph)
       /\ (scene.pc = "idle" /\ scene'.pc # "idle") =>
            /\ harness'.ph = harness.ph /\ harness.ph \in DOMAIN harness.phases
            /\ queue' = harness.phases[harness.ph].queue
            /\ memory' = harness.phases[harness.ph].memory
       /\ (SceneEnqueueCall \/ SceneFlushCall \/ SceneTestCall) =>
            /\ harness.pc = "scene" /\ harness'.ph = harness.ph
       /\ harness'.ph # harness.ph =>
            \/ harness.pc = "idle" /\ harness'.ph = 1
            \/ /\ harness'.ph = harness.ph + 1
               /\ scene.pc = "idle" /\ ReturnedOk(scene)
       /\ (harness.pc # "idle" /\ harness'.pc = "idle") =>
            /\ harness'.ret # None
            /\ IsErr(harness'.ret[1]) =>
                  /\ scene.pc = "idle" /\ scene.ret = harness'.ret
                  /\ harness'.ph = harness.ph
            /\ IsOk(harness'.ret[1]) =>
                  /\ harness.ph = Len(harness.phases) + 1
                  /\ harness'.ret[1].ok = harness.buffer
       /\ (harness.pc = "scene" /\ scene.pc = "idle"
               /\ scene.ret # None /\ IsErr(scene.ret[1])) =>
            harness'.pc = "idle"]_vars

\* The second draw of the harness has stopped at its first phase, which
\* failed: the buffer holds the clear and draws of the first phase only,
\* while the second phase has compiled in the draw before.
C13_Witness ==
    /\ harness.pc = "idle" /\ harness.ret # None /\ IsErr(harness.ret[1])
    /\ harness.ph = 1 /\ Len(harness.phases) = 2
    /\ harness.buffer # <<>> /\ harness.buffer[1].cmd = "clear"
    /\ \E i \in DOMAIN harness.buffer : harness.buffer[i].cmd = "draw"
    /\ harness.phases[2].compiles["red"] > 0
====
